---- MODULE Spec2Model ----
(***************************************************************************)
(* Model of the self-correcting SQL feedback loop of                       *)
(* backend/sql_feedback_loop.py: ConstraintExtractor, QueryValidator,      *)
(* SQLCorrector, LearningStore and the orchestrator                        *)
(* SQLFeedbackLoop.process_query.                                          *)
(*                                                                         *)
(* Strings are modelled by what the code reads of them.  An utterance is   *)
(* the set of its phrases plus its price phrase; `needle in query` is      *)
(* decided by the substring table Needles.  A SQL statement is the record  *)
(* of the textual features that the validator and the corrector test and   *)
(* rewrite (see SqlText below).                                            *)
(***************************************************************************)
EXTENDS Integers, Sequences, FiniteSets, TLC

\* ------------------------------------------------------------------------
\* Bounds of the model
\* ------------------------------------------------------------------------

\* max_iterations is a constructor argument; the model draws it from
\* 0 .. MaxIterationsBound (the default, 3, included).
MaxIterationsBound == 3

\* the number of requests that run in parallel threads
NumWorkers == 2

\* ------------------------------------------------------------------------
\* Program constants
\* ------------------------------------------------------------------------

\* max_iterations: int = 3
DefaultMaxIterations == 3

\* similar_corrections[:2]
TopLearned == 2

\* get_similar_corrections(..., limit: int = 5)
SimilarLimit == 5

\* float('inf'), the open upper end of an "over $A" range
Inf == 1000000000

\* ValidationStatus
SUCCESS == "success"
CORRECTED == "corrected"
FAILED == "failed"
MAX_ITERATIONS == "max_iterations"

ValidationStatus == {SUCCESS, CORRECTED, FAILED, MAX_ITERATIONS}

\* SchemaMapper.COUNTY_MAPPINGS keys, in dictionary order (the two the model uses)
COUNTY_MAPPINGS == <<"dekalb", "walton">>

\* SchemaMapper.PROPERTY_TYPE_MAPPINGS keys, in dictionary order (the two the
\* model uses)
PROPERTY_TYPE_MAPPINGS == <<"gas station", "retail">>

\* TRUE when PROPERTY_TYPE_MAPPINGS[t] still contains the narrow predicate
\* property_type ILIKE '%t%' that _fix_low_results replaces: so for 'retail'
\* ("(property_type ILIKE '%retail%' OR ...)"), not for 'gas station'
\* ("(property_type ILIKE '%gas%' OR ...)").
BroadContainsNarrow(t) == t = "retail"

Range(s) == {s[i] : i \in DOMAIN s}

\* ------------------------------------------------------------------------
\* Utterances
\* ------------------------------------------------------------------------

\* The needles of the extractor that occur in a phrase of an utterance
\* ('count' occurs in 'county' and in 'counties').
Needles(phrase) ==
    CASE phrase = "walton" -> {"walton"}
      [] phrase = "dekalb" -> {"dekalb"}
      [] phrase = "county" -> {"count"}
      [] phrase = "counties" -> {"count", "counties"}
      [] phrase = "how many" -> {"how many"}
      [] phrase = "gas stations" -> {"gas station"}
      [] phrase = "retail" -> {"retail"}
      [] phrase = "total" -> {"total"}
      [] OTHER -> {}

\* needle in query_lower
InQuery(needle, user_query) ==
    \E p \in user_query.phrases : needle \in Needles(p)

NoPrice == [kind |-> "none", a |-> 0, b |-> 0, k |-> FALSE]

\* "walton properties"
UWalton ==
    [phrases |-> {"walton", "properties"}, price |-> NoPrice]

\* "retail properties under $500k"
URetail ==
    [phrases |-> {"retail", "properties"},
     price |-> [kind |-> "under", a |-> 500, b |-> 0, k |-> TRUE]]

\* The keys that occur in the utterance, in dictionary order, as the loops
\* `for key in MAPPINGS.keys(): if key in query_lower: append(key)` build them
RECURSIVE KeysIn(_, _)
KeysIn(keys, user_query) ==
    IF keys = <<>> THEN <<>>
    ELSE (IF InQuery(Head(keys), user_query) THEN <<Head(keys)>> ELSE <<>>)
         \o KeysIn(Tail(keys), user_query)

\* ConstraintExtractor._extract_price_range: the first of the patterns
\* between / under / over that matches; 'k' in the match scales by 1000.
\* None is the empty tuple.
extract_price_range(user_query) ==
    LET p == user_query.price
        scale == IF p.k THEN 1000 ELSE 1
    IN CASE p.kind = "between" -> <<p.a * scale, p.b * scale>>
         [] p.kind = "under" -> <<0, p.a * scale>>
         [] p.kind = "over" -> <<p.a * scale, Inf>>
         [] OTHER -> <<>>

\* ConstraintExtractor._extract_aggregation
extract_aggregation(user_query) ==
    IF \E w \in {"how many", "count", "number of"} : InQuery(w, user_query)
    THEN "COUNT"
    ELSE IF InQuery("average", user_query) \/ InQuery("avg", user_query)
    THEN "AVG"
    ELSE IF InQuery("sum", user_query) \/ InQuery("total", user_query)
    THEN "SUM"
    ELSE IF InQuery("maximum", user_query) \/ InQuery("max", user_query)
    THEN "MAX"
    ELSE IF InQuery("minimum", user_query) \/ InQuery("min", user_query)
    THEN "MIN"
    ELSE "NONE"

\* ConstraintExtractor._estimate_result_count
estimate_result_count(counties, property_types, aggregation_type, user_query) ==
    IF aggregation_type # "NONE"
    THEN IF InQuery("counties", user_query) THEN <<1, 20>> ELSE <<1, 1>>
    ELSE IF counties # <<>> /\ property_types # <<>> THEN <<1, 100>>
    ELSE IF counties # <<>> \/ property_types # <<>> THEN <<5, 500>>
    ELSE <<10, 1000>>

\* ConstraintExtractor.extract_constraints (the fields the validator and the
\* corrector read)
extract_constraints(user_query) ==
    LET counties == KeysIn(COUNTY_MAPPINGS, user_query)
        property_types == KeysIn(PROPERTY_TYPE_MAPPINGS, user_query)
        aggregation_type == extract_aggregation(user_query)
        band == estimate_result_count(counties, property_types,
                                      aggregation_type, user_query)
    IN [counties |-> counties,
        price_range |-> extract_price_range(user_query),
        property_types |-> property_types,
        aggregation_type |-> aggregation_type,
        expected_min_results |-> band[1],
        expected_max_results |-> band[2]]

\* ------------------------------------------------------------------------
\* SQL text
\* ------------------------------------------------------------------------

\* essential_columns of _ensure_essential_columns
essential_columns == {"listing_url", "address", "zoning"}

Counties == Range(COUNTY_MAPPINGS)
PropertyTypes == Range(PROPERTY_TYPE_MAPPINGS)

\* A SQL statement, as the features of its text that the code inspects:
\*   select_kw    'SELECT ' occurs (upper case, as _fix_aggregation_query needs)
\*   select_from  the regex SELECT\s+(.+?)\s+FROM matches (any letter case)
\*   cols         the essential column names that occur in the select list
\*   count        'COUNT(' occurs in query.upper()
\*   group_by     'GROUP BY' occurs in query.upper()
\*   ap_list      ', asking_price' occurs (the regex ,\s*asking_price)
\*   ap_other     'asking_price' occurs elsewhere outside a price predicate
\*   price        the price predicate: "none"; "ineq" (asking_price > A AND
\*                asking_price < B); "between" (asking_price BETWEEN A AND B);
\*                "other" (one-sided, asking_price <= A)
\*   county[c]    the predicate naming county c: "none"; "ptype" (exactly
\*                property_type ILIKE '%c%'); "ptype_lc" (the same in another
\*                letter case); "addr" (address->>'county' ILIKE '%c%')
\*   marker       address->>'county' or address::text occurs outside the
\*                county predicates (select list, GROUP BY)
\*   ptype[t]     narrow: property_type ILIKE '%t%' occurs; wraps: how often
\*                it was replaced by PROPERTY_TYPE_MAPPINGS[t]
SqlText ==
    [select_kw : BOOLEAN, select_from : BOOLEAN,
     cols : SUBSET essential_columns,
     count : BOOLEAN, group_by : BOOLEAN,
     ap_list : BOOLEAN, ap_other : BOOLEAN,
     price : {"none", "ineq", "between", "other"},
     county : [Counties -> {"none", "ptype", "ptype_lc", "addr"}],
     marker : BOOLEAN,
     ptype : [PropertyTypes -> [narrow : BOOLEAN, wraps : Nat]]]

\* county in query_lower
MentionsCounty(query, c) == query.county[c] # "none"

\* "address->>'county'" in query_lower or "address::text" in query_lower
HasAddressField(query) ==
    query.marker \/ \E c \in Counties : query.county[c] = "addr"

\* f"property_type ilike '%{county}%'" in query_lower
HasLowerPropertyTypePattern(query, c) ==
    query.county[c] \in {"ptype", "ptype_lc"}

\* f"property_type ILIKE '%{county}%'" in query
HasExactPropertyTypePattern(query, c) == query.county[c] = "ptype"

\* 'asking_price' in query
HasAskingPrice(query) ==
    query.ap_list \/ query.ap_other \/ query.price # "none"

\* 'between' in query_lower
HasBetween(query) == query.price = "between"

\* ------------------------------------------------------------------------
\* ExecutionResult (QueryResult): row_count and errors
\* ------------------------------------------------------------------------

\* the row counts the model's property store can answer with
RowCounts == {0, 10}

\* SQLFeedbackLoop._execute_query: either the rows of the statement, or, on
\* SQLAlchemyError, no rows and the error in errors
QueryResults ==
    {[row_count |-> n, errors |-> <<>>] : n \in RowCounts}
    \cup {[row_count |-> 0, errors |-> <<"SQLAlchemyError">>]}

\* The property store.  "live": other clients change it, so each execution
\* may answer anything.  Otherwise a fixed content, which answers a statement
\* the same way every time:
\*   "georgia"  no property_type holds a county name and no property_type
\*              reads plainly 'retail': such filters match nothing, every
\*              other statement 10 rows
\*   "empty"    no statement matches a row
Databases == {"georgia", "empty"}

DatabaseAnswer(db, query) ==
    IF db = "empty" THEN [row_count |-> 0, errors |-> <<>>]
    ELSE IF \/ \E c \in Counties : HasLowerPropertyTypePattern(query, c)
            \/ \E t \in PropertyTypes :
                  query.ptype[t].narrow /\ query.ptype[t].wraps = 0
    THEN [row_count |-> 0, errors |-> <<>>]
    ELSE [row_count |-> 10, errors |-> <<>>]

\* mutant: the answer to a statement does not depend on the store's content
execute_query_unstable(db, query) == QueryResults

\* the results _execute_query can return for a statement
execute_query(db, query) ==
    IF db = "live" THEN QueryResults ELSE {DatabaseAnswer(db, query)}

\* ------------------------------------------------------------------------
\* QueryValidator
\* ------------------------------------------------------------------------

TooFew == "Too few results"
TooMany == "Too many results"
AggregationFailed == "Aggregation query validation failed"
CountyIncorrect == "County filter appears incorrect in SQL"
PriceIncorrect == "Price range filter appears incorrect in SQL"

\* QueryValidator._validate_aggregation
validate_aggregation(result, constraints, query) ==
    IF constraints.aggregation_type = "COUNT"
    THEN query.count /\ result.row_count # 0
    ELSE TRUE

\* QueryValidator._validate_county_filter: False as soon as a county that the
\* SQL mentions is filtered through property_type while the SQL has no
\* address field anywhere
validate_county_filter(query, counties) ==
    ~ \E i \in DOMAIN counties :
        /\ MentionsCounty(query, counties[i])
        /\ ~ HasAddressField(query)
        /\ HasLowerPropertyTypePattern(query, counties[i])

\* QueryValidator._validate_price_range
validate_price_range(query, price_range) ==
    IF ~ HasAskingPrice(query) THEN FALSE
    ELSE IF price_range[1] > 0 /\ price_range[2] < Inf /\ ~ HasBetween(query)
    THEN FALSE
    ELSE TRUE

\* QueryValidator.validate_results: the issues, in the order they are appended
validate_issues(result, constraints, original_query) ==
    (IF result.row_count < constraints.expected_min_results
     THEN <<TooFew>> ELSE <<>>)
    \o (IF constraints.expected_max_results # 0
           /\ result.row_count > constraints.expected_max_results
        THEN <<TooMany>> ELSE <<>>)
    \o result.errors
    \o (IF constraints.aggregation_type # "NONE"
           /\ ~ validate_aggregation(result, constraints, original_query)
        THEN <<AggregationFailed>> ELSE <<>>)
    \o (IF constraints.counties # <<>>
           /\ ~ validate_county_filter(original_query, constraints.counties)
        THEN <<CountyIncorrect>> ELSE <<>>)
    \o (IF constraints.price_range # <<>>
           /\ ~ validate_price_range(original_query, constraints.price_range)
        THEN <<PriceIncorrect>> ELSE <<>>)

\* QueryValidator.validate_results: (len(issues) == 0, issues)
validate_results(result, constraints, original_query) ==
    LET issues == validate_issues(result, constraints, original_query)
    IN [is_valid |-> Len(issues) = 0, issues |-> issues]

\* ------------------------------------------------------------------------
\* LearningStore
\* ------------------------------------------------------------------------

\* The table feedback_records is a sequence of records, oldest timestamp
\* first (timestamp = datetime.now() at the write).

\* "county filter" in record.correction_reason.lower()
MentionsCountyFilter(correction_reason) ==
    \E i \in DOMAIN correction_reason :
        correction_reason[i] \in {"Fixed dekalb county filter to use address field",
                                  "Fixed walton county filter to use address field"}

RECURSIVE Reverse(_)
Reverse(s) == IF s = <<>> THEN <<>> ELSE Reverse(Tail(s)) \o <<Head(s)>>

RECURSIVE SelectStatus(_, _)
SelectStatus(s, status) ==
    IF s = <<>> THEN <<>>
    ELSE (IF Head(s).validation_status = status THEN <<Head(s)>> ELSE <<>>)
         \o SelectStatus(Tail(s), status)

Prefix(s, n) == SubSeq(s, 1, IF Len(s) < n THEN Len(s) ELSE n)

\* LearningStore.get_similar_corrections: WHERE validation_status =
\* 'corrected' ORDER BY timestamp DESC LIMIT ?
get_similar_corrections(table, constraints, limit) ==
    Prefix(Reverse(SelectStatus(table, CORRECTED)), limit)

RECURSIVE DeleteHash(_, _)
DeleteHash(table, query_hash) ==
    IF table = <<>> THEN <<>>
    ELSE (IF Head(table).query_hash = query_hash THEN <<>> ELSE <<Head(table)>>)
         \o DeleteHash(Tail(table), query_hash)

\* mutant: a plain INSERT, the row of the same query_hash stays
store_feedback_insert(table, record) == Append(table, record)

\* mutant: the write replaces the row's columns in two statements, and another
\* connection's write lands between them: the status of the row that was
\* there survives
store_feedback_torn(table, record) ==
    IF \E i \in DOMAIN table : table[i].query_hash = record.query_hash
    THEN LET old == CHOOSE i \in DOMAIN table :
                        table[i].query_hash = record.query_hash
         IN Append(DeleteHash(table, record.query_hash),
                   [record EXCEPT
                       !.validation_status = table[old].validation_status])
    ELSE Append(table, record)

\* LearningStore.store_feedback: INSERT OR REPLACE on the UNIQUE query_hash
store_feedback(table, record) ==
    Append(DeleteHash(table, record.query_hash), record)

\* ------------------------------------------------------------------------
\* SQLCorrector
\* ------------------------------------------------------------------------

FixedCountyMsg(c) ==
    IF c = "dekalb" THEN "Fixed dekalb county filter to use address field"
    ELSE "Fixed walton county filter to use address field"

BroadenedMsg(t) ==
    IF t = "retail" THEN "Broadened retail search to include subtypes"
    ELSE "Broadened gas station search to include subtypes"

\* A corrector stage returns [query, corrections].

\* SQLCorrector._fix_county_filters
RECURSIVE fix_county_filters(_, _)
fix_county_filters(query, counties) ==
    IF counties = <<>> THEN [query |-> query, corrections |-> <<>>]
    ELSE LET c == Head(counties)
             hit == HasExactPropertyTypePattern(query, c)
             q1 == IF hit THEN [query EXCEPT !.county[c] = "addr"] ELSE query
             rest == fix_county_filters(q1, Tail(counties))
         IN [query |-> rest.query,
             corrections |-> (IF hit THEN <<FixedCountyMsg(c)>> ELSE <<>>)
                             \o rest.corrections]

\* SQLCorrector._fix_aggregation_query
fix_aggregation_query(query, constraints) ==
    IF constraints.aggregation_type # "COUNT"
    THEN [query |-> query, corrections |-> <<>>]
    ELSE LET addCount == ~ query.count /\ query.select_kw
             q1 == IF addCount THEN [query EXCEPT !.count = TRUE] ELSE query
             dropPrice == query.group_by /\ HasAskingPrice(query)
             q2 == IF dropPrice THEN [q1 EXCEPT !.ap_list = FALSE] ELSE q1
         IN [query |-> q2,
             corrections |->
                 (IF addCount THEN <<"Added COUNT(*) to aggregation query">>
                  ELSE <<>>)
                 \o (IF dropPrice
                     THEN <<"Removed asking_price from GROUP BY clause">>
                     ELSE <<>>)]

\* SQLCorrector._fix_low_results
RECURSIVE fix_low_results_types(_, _)
fix_low_results_types(query, property_types) ==
    IF property_types = <<>> THEN [query |-> query, corrections |-> <<>>]
    ELSE LET t == Head(property_types)
             hit == query.ptype[t].narrow
             q1 == IF hit
                   THEN [query EXCEPT !.ptype[t] =
                            [narrow |-> BroadContainsNarrow(t),
                             wraps |-> @.wraps + 1]]
                   ELSE query
             rest == fix_low_results_types(q1, Tail(property_types))
         IN [query |-> rest.query,
             corrections |-> (IF hit THEN <<BroadenedMsg(t)>> ELSE <<>>)
                             \o rest.corrections]

fix_low_results(query, constraints) ==
    fix_low_results_types(query, constraints.property_types)

\* SQLCorrector._fix_price_range
fix_price_range(query, price_range) ==
    IF /\ price_range # <<>>
       /\ HasAskingPrice(query) /\ ~ HasBetween(query)
       /\ price_range[1] > 0 /\ price_range[2] < Inf
       /\ query.price = "ineq"
    THEN [query |-> [query EXCEPT !.price = "between"],
          corrections |-> <<"Converted price range to BETWEEN clause">>]
    ELSE [query |-> query, corrections |-> <<>>]

\* SQLCorrector._ensure_essential_columns
ensure_essential_columns(query) ==
    IF query.group_by \/ query.count
    THEN [query |-> query, corrections |-> <<>>]
    ELSE IF ~ query.select_from
    THEN [query |-> query, corrections |-> <<>>]
    ELSE IF essential_columns \ query.cols # {}
    THEN [query |-> [query EXCEPT !.cols = essential_columns],
          corrections |-> <<"Added essential display columns">>]
    ELSE [query |-> query, corrections |-> <<>>]

\* the inner loop of _apply_learned_patterns: the first county of the
\* constraints whose property_type pattern is in the SQL is rewritten, then
\* `break`
RECURSIVE apply_learned_county(_, _)
apply_learned_county(query, counties) ==
    IF counties = <<>> THEN [query |-> query, corrections |-> <<>>]
    ELSE IF HasExactPropertyTypePattern(query, Head(counties))
    THEN [query |-> [query EXCEPT !.county[Head(counties)] = "addr"],
          corrections |-> <<"Applied learned county correction pattern">>]
    ELSE apply_learned_county(query, Tail(counties))

\* SQLCorrector._apply_learned_patterns, over the records it is given
RECURSIVE apply_learned_records(_, _, _)
apply_learned_records(query, records, constraints) ==
    IF records = <<>> THEN [query |-> query, corrections |-> <<>>]
    ELSE LET r == Head(records)
             one == IF MentionsCountyFilter(r.correction_reason)
                    THEN apply_learned_county(query, constraints.counties)
                    ELSE [query |-> query, corrections |-> <<>>]
             rest == apply_learned_records(one.query, Tail(records), constraints)
         IN [query |-> rest.query,
             corrections |-> one.corrections \o rest.corrections]

apply_learned_patterns(query, similar_corrections, constraints) ==
    apply_learned_records(query, Prefix(similar_corrections, TopLearned),
                          constraints)

HasIssue(issues, text) == \E i \in DOMAIN issues : issues[i] = text

NoCorrections == <<"No specific corrections applied">>

\* SQLCorrector.generate_correction: [query, reason], the stages in their
\* fixed order, each on the output of the one before
generate_correction(original_query, constraints, issues, table) ==
    LET none(q) == [query |-> q, corrections |-> <<>>]
        s1 == IF HasIssue(issues, CountyIncorrect)
              THEN fix_county_filters(original_query, constraints.counties)
              ELSE none(original_query)
        s2 == IF HasIssue(issues, AggregationFailed)
              THEN fix_aggregation_query(s1.query, constraints)
              ELSE none(s1.query)
        s3 == IF HasIssue(issues, TooFew)
              THEN fix_low_results(s2.query, constraints)
              ELSE none(s2.query)
        s4 == IF HasIssue(issues, PriceIncorrect)
              THEN fix_price_range(s3.query, constraints.price_range)
              ELSE none(s3.query)
        s5 == ensure_essential_columns(s4.query)
        similar == get_similar_corrections(table, constraints, SimilarLimit)
        s6 == IF similar # <<>>
              THEN apply_learned_patterns(s5.query, similar, constraints)
              ELSE none(s5.query)
        applied == s1.corrections \o s2.corrections \o s3.corrections
                   \o s4.corrections \o s5.corrections \o s6.corrections
    IN [query |-> s6.query,
        reason |-> IF applied # <<>> THEN applied ELSE NoCorrections]

\* ------------------------------------------------------------------------
\* The requests of the model
\* ------------------------------------------------------------------------

\* SELECT id, name, listing_url, address, zoning FROM "Georgia Properties"
PlainSelect ==
    [select_kw |-> TRUE, select_from |-> TRUE, cols |-> essential_columns,
     count |-> FALSE, group_by |-> FALSE, ap_list |-> FALSE,
     ap_other |-> FALSE, price |-> "none",
     county |-> [c \in Counties |-> "none"], marker |-> FALSE,
     ptype |-> [t \in PropertyTypes |-> [narrow |-> FALSE, wraps |-> 0]]]

\* ... WHERE property_type ILIKE '%walton%'
QCountyAsType == [PlainSelect EXCEPT !.county["walton"] = "ptype"]

\* SELECT id, address->>'county' AS county, listing_url, zoning ...
\* WHERE property_type ILIKE '%walton%'
QCountyAsTypeWithField ==
    [PlainSelect EXCEPT !.county["walton"] = "ptype", !.marker = TRUE]

\* SELECT id, name ... WHERE property_type ILIKE '%retail%'
\* AND asking_price <= 500000
QRetailNarrow ==
    [PlainSelect EXCEPT !.cols = {}, !.price = "other",
                        !.ptype["retail"] = [narrow |-> TRUE, wraps |-> 0]]

\* "how many counties"
UHowManyCounties ==
    [phrases |-> {"how many", "counties"}, price |-> NoPrice]

\* select id, name, listing_url, address, zoning from "Georgia Properties"
\* (the keyword in lower case)
QLowerCaseSelect == [PlainSelect EXCEPT !.select_kw = FALSE]

\* SELECT address->>'county' AS county, listing_url, zoning
\* FROM "Georgia Properties" GROUP BY address->>'county'
QGroupByCounty ==
    [PlainSelect EXCEPT !.group_by = TRUE, !.marker = TRUE]

\* "gas stations in walton county under $500k"
UGasWaltonCounty ==
    [phrases |-> {"gas stations", "walton", "county"},
     price |-> [kind |-> "under", a |-> 500, b |-> 0, k |-> TRUE]]

\* "gas stations in walton under $500k"
UGasWalton ==
    [phrases |-> {"gas stations", "walton"},
     price |-> [kind |-> "under", a |-> 500, b |-> 0, k |-> TRUE]]

\* SELECT id, name, listing_url, address, zoning FROM t
\* WHERE property_type ILIKE '%walton%' AND asking_price <= 500000
QGasCountyAsType ==
    [PlainSelect EXCEPT !.county["walton"] = "ptype", !.price = "other"]

\* ... WHERE property_type ILIKE '%walton%'
\* AND property_type ILIKE '%gas station%' AND asking_price <= 500000
QGasStationCountyAsType ==
    [PlainSelect EXCEPT !.county["walton"] = "ptype", !.price = "other",
                        !.ptype["gas station"] =
                            [narrow |-> TRUE, wraps |-> 0]]

\* the requests for gas stations of a county, below a price
ScenarioRequests ==
    {<<UGasWaltonCounty, QGasCountyAsType>>,
     <<UGasWaltonCounty, QGasStationCountyAsType>>,
     <<UGasWalton, QGasCountyAsType>>,
     <<UGasWalton, QGasStationCountyAsType>>}

\* the requests of callers who ask for counts
AggregationRequests ==
    {<<UHowManyCounties, QLowerCaseSelect>>,
     <<UHowManyCounties, QGroupByCounty>>}

\* the (user_input, gpt4_generated_query) pairs callers submit
Requests ==
    {<<UWalton, QCountyAsType>>,
     <<UWalton, QCountyAsTypeWithField>>,
     <<URetail, QRetailNarrow>>}

\* ------------------------------------------------------------------------
\* QueryParser and SQLGenerator (query_parser.py)
\* ------------------------------------------------------------------------

\* the most phrases of the parser's vocabulary an utterance combines
MaxPhrases == 2

\* self.limit = 50 of QueryParser.reset
DefaultLimit == 50

\* QueryParser.GEORGIA_COUNTIES, a Python set of strings (two of its members)
GEORGIA_COUNTIES == {"cobb", "fulton"}

\* the orders in which a loop can iterate over a set of strings: the order
\* follows the strings' hashes, which CPython salts anew in every process
IterationOrders(S) ==
    {o \in [1 .. Cardinality(S) -> S] :
        \A i, j \in DOMAIN o : i # j => o[i] # o[j]}

\* aggregation_keywords of _is_aggregation_query
aggregation_keywords ==
    {"how many counties", "county count", "counties", "count of counties",
     "count of every county", "which county has how many",
     "how many properties", "total properties", "count all",
     "property types count", "count by type", "types statistics"}

\* the words of the first test of _parse_aggregation_query: county statistics
county_count_words ==
    {"counties", "county count", "how many counties", "count of counties",
     "count of every county", "which county has how many"}

\* the words of its second test: property type count
type_count_words ==
    {"count by type", "property types count", "types statistics"}

\* mutant: 'total' is not among the words of the third test
total_count_words_without_total == {"count all", "how many properties"}

\* the words of its third test: total count
total_count_words == {"total", "count all", "how many properties"}

\* the phrases utterances to the parser are made of: the keywords above, and
\* words no test looks for
ParserPhrases ==
    aggregation_keywords \cup {"total", "properties", "cheapest"}

\* word in phrase, for the words above (Python's substring test)
OccursIn(word, phrase) ==
    \/ word = phrase
    \/ <<word, phrase>> \in
          {<<"counties", "how many counties">>,
           <<"counties", "count of counties">>,
           <<"total", "total properties">>}

\* keyword in query
InText(word, text) == \E p \in text.phrases : OccursIn(word, p)

\* An utterance to the parser: the phrases it contains, the counties it
\* names in a form _parse_location recognises ('cobb county', 'in cobb'),
\* and the limit it states ('top 10'; 0: it states none)
ParserUtterances ==
    [phrases : {P \in SUBSET ParserPhrases : Cardinality(P) <= MaxPhrases},
     counties : SUBSET GEORGIA_COUNTIES,
     limit : {0, 10}]

\* QueryParser._is_aggregation_query
is_aggregation_query(text) ==
    \E keyword \in aggregation_keywords : InText(keyword, text)

\* QueryParser._parse_location: the loop over GEORGIA_COUNTIES in the order
\* the set iterates; the first county whose pattern matches gives the one
\* filter QueryFilter(FilterType.COUNTY, 'ILIKE', f'%{county}%'), and the
\* method returns
RECURSIVE parse_location(_, _)
parse_location(order, text) ==
    IF order = <<>> THEN <<>>
    ELSE IF Head(order) \in text.counties
    THEN <<[filter_type |-> "COUNTY", operator |-> "ILIKE",
            value |-> Head(order)]>>
    ELSE parse_location(Tail(order), text)

\* ParsedQuery; limit None is <<>>
ParsedQuery(filters, limit, is_aggregate, aggregate_type) ==
    [filters |-> filters, limit |-> limit, is_aggregate |-> is_aggregate,
     aggregate_type |-> aggregate_type]

NoParsedQuery == ParsedQuery(<<>>, <<>>, FALSE, "none")

\* QueryParser.parse past the aggregation test: reset() sets self.limit = 50
\* and nothing reads a limit from the utterance
parse_regular(order, text) ==
    ParsedQuery(parse_location(order, text), <<DefaultLimit>>, FALSE, "none")

\* the three tests of _parse_aggregation_query; "fallback" when none holds
aggregation_branch(text) ==
    IF \E w \in county_count_words : InText(w, text) THEN "county_count"
    ELSE IF \E w \in type_count_words : InText(w, text) THEN "type_count"
    ELSE IF \E w \in total_count_words : InText(w, text) THEN "total_count"
    ELSE "fallback"

\* SQLGenerator._build_condition for a county filter:
\* address->>'county' ILIKE '%value%'
build_condition(filter) ==
    [field |-> "address->>'county'", operator |-> filter.operator,
     value |-> filter.value]

\* The SQL the generator emits, as its clauses: the statement kind, the
\* conditions of WHERE in order, what joins them (" AND ".join), and LIMIT
\* (<<>>: no LIMIT clause)
SqlStatement(kind, where, limit) ==
    [kind |-> kind, where |-> where, joined_by |-> "AND", limit |-> limit]

NoSql == SqlStatement("none", <<>>, <<>>)

\* SQLGenerator._generate_aggregate_sql: fixed statements without LIMIT
generate_aggregate_sql(parsed_query) ==
    SqlStatement(parsed_query.aggregate_type, <<>>, <<>>)

\* SQLGenerator.generate
generate(parsed_query) ==
    IF parsed_query.is_aggregate
    THEN generate_aggregate_sql(parsed_query)
    ELSE SqlStatement("select",
                      [i \in DOMAIN parsed_query.filters |->
                          build_condition(parsed_query.filters[i])],
                      parsed_query.limit)

\* ------------------------------------------------------------------------
\* SQLFeedbackLoop.process_query
\* ------------------------------------------------------------------------

VARIABLES
    max_iterations,        \* self.max_iterations
    table,                 \* feedback_records of the learning store
    pc,                    \* where process_query stands
    user_input,
    gpt4_generated_query,
    constraints,
    current_query,
    iteration_count,
    validation_status,
    correction_history,
    result,                \* the result of the loop's latest execution
    issues,                \* the issues of the loop's latest validation
    final_result,
    outcome,               \* running, or how the latest call ended
    database,              \* the property store: "live" or a fixed content
    \* history variables of the running call
    exec_calls,            \* _execute_query calls
    corr_calls,            \* generate_correction calls
    valid_seen,            \* the loop's latest validation passed
    unchanged_seen,        \* the corrector returned its input
    stages,                \* the stages run, in order
    learned_log,           \* per corrector call: learned patterns enabled
    store_faults,          \* a learning-store read or write failed (caught)
    prev_run,              \* <<summary>> of the call that returned before
    last_exec,             \* <<[query, result]>> of the latest _execute_query
    stored,                \* <<record>> the call's store_feedback committed
    workload,              \* the (user_input, candidate SQL) pairs submitted
    \* requests running in parallel threads on the shared stores
    workers,               \* per thread: where it stands, what it holds
    store_lock,            \* the thread holding SQLite's write lock, or 0
    last_committed,        \* per query_hash: <<record>> of the latest commit
    stats_totals,          \* <<total>> the latest get_learning_stats gave
    overwritten,           \* a commit replaced a row since the latest stats
    \* the extractor, the validator and the corrector applied to given inputs
    probe,
    \* QueryParser.parse and SQLGenerator.generate at work on an utterance
    parser

vars ==
    <<max_iterations, table, pc, user_input, gpt4_generated_query,
      constraints, current_query, iteration_count, validation_status,
      correction_history, result, issues, final_result, outcome, database,
      exec_calls, corr_calls, valid_seen, unchanged_seen, stages,
      learned_log, store_faults, prev_run, last_exec, stored, workload,
      workers, store_lock, last_committed, stats_totals,
      overwritten, probe, parser>>

unitVars == <<probe, parser>>

\* the state of the parallel threads
concVars ==
    <<workers, store_lock, last_committed, stats_totals,
      overwritten>>

Workers == 1 .. NumWorkers

\* a thread that runs no request
IdleWorker ==
    [pc |-> "idle", record |-> <<>>, engine_conn |-> FALSE,
     store_conn |-> FALSE, exec_failed |-> FALSE, committed |-> FALSE]

\* no request runs in a parallel thread, nothing was stored, no stats read
ThreadsIdle ==
    /\ workers = [w \in Workers |-> IdleWorker]
    /\ store_lock = 0
    /\ last_committed = <<>>
    /\ stats_totals = <<>>
    /\ overwritten = FALSE

NoInput == [phrases |-> {}, price |-> NoPrice]
NoResult == [row_count |-> 0, errors |-> <<>>]

\* no function was applied to inputs outside a call
NoProbe ==
    [stage |-> "none", user_query |-> NoInput, query |-> PlainSelect,
     result |-> NoResult, table |-> <<>>,
     constraints |-> extract_constraints(NoInput), issues |-> <<>>,
     is_valid |-> FALSE,
     corrected |-> [query |-> PlainSelect, reason |-> NoCorrections]]

\* a QueryParser of a process whose sets iterate in the given order, before
\* its first parse
ParserIdle(order) ==
    [pc |-> "idle", set_order |-> order,
     query |-> [phrases |-> {}, counties |-> {}, limit |-> 0],
     depth |-> 0, parsed |-> NoParsedQuery, sql |-> NoSql,
     runs |-> 0, prev_sql |-> NoSql]

\* no probe, and no parser in use
UnitsIdle ==
    /\ probe = NoProbe
    /\ parser = ParserIdle(<<>>)

\* the locals of process_query when no call is running
LocalsCleared ==
    /\ user_input' = NoInput
    /\ gpt4_generated_query' = PlainSelect
    /\ constraints' = extract_constraints(NoInput)
    /\ current_query' = PlainSelect
    /\ iteration_count' = 0
    /\ validation_status' = SUCCESS
    /\ correction_history' = <<>>
    /\ result' = NoResult
    /\ issues' = <<>>
    /\ final_result' = NoResult
    /\ exec_calls' = 0
    /\ corr_calls' = 0
    /\ valid_seen' = FALSE
    /\ unchanged_seen' = FALSE
    /\ stages' = <<>>
    /\ learned_log' = <<>>
    /\ store_faults' = FALSE
    /\ last_exec' = <<>>
    /\ stored' = <<>>

Stage(name, query) == [stage |-> name, query |-> query]

\* SQLFeedbackLoop.__init__: LearningStore() creates the table if it does not
\* exist; no call is running
Constructed ==
    /\ table = <<>>
    /\ pc = "idle"
    /\ user_input = NoInput
    /\ gpt4_generated_query = PlainSelect
    /\ constraints = extract_constraints(NoInput)
    /\ current_query = PlainSelect
    /\ iteration_count = 0
    /\ validation_status = SUCCESS
    /\ correction_history = <<>>
    /\ result = NoResult
    /\ issues = <<>>
    /\ final_result = NoResult
    /\ outcome = "none"
    /\ exec_calls = 0
    /\ corr_calls = 0
    /\ valid_seen = FALSE
    /\ unchanged_seen = FALSE
    /\ stages = <<>>
    /\ learned_log = <<>>
    /\ store_faults = FALSE
    /\ prev_run = <<>>
    /\ last_exec = <<>>
    /\ stored = <<>>
    /\ ThreadsIdle

\* SQLFeedbackLoop.__init__ with max_iterations as the caller constructs it
Init ==
    /\ max_iterations \in 0 .. MaxIterationsBound
    /\ database = "live"
    /\ workload = Requests
    /\ Constructed
    /\ UnitsIdle

\* the same construction, over a property store whose content stays fixed
InitStable ==
    /\ max_iterations \in 0 .. MaxIterationsBound
    /\ database \in Databases
    /\ workload = Requests
    /\ Constructed
    /\ UnitsIdle

\* the same construction, serving callers who ask for counts
InitAggregation ==
    /\ max_iterations \in 0 .. MaxIterationsBound
    /\ database = "live"
    /\ workload = AggregationRequests
    /\ Constructed
    /\ UnitsIdle

\* the same construction, serving callers who look for the gas stations of a
\* county, over a property store whose content stays fixed
InitScenario ==
    /\ max_iterations \in 0 .. MaxIterationsBound
    /\ database \in Databases
    /\ workload = ScenarioRequests
    /\ Constructed
    /\ UnitsIdle

\* process_query, lines 678-688: extract the constraints, initialise
ProcessQuery(u, q) ==
    /\ pc = "idle"
    /\ user_input' = u
    /\ gpt4_generated_query' = q
    /\ constraints' = extract_constraints(u)
    /\ current_query' = q
    /\ iteration_count' = 0
    /\ validation_status' = SUCCESS
    /\ correction_history' = <<>>
    /\ stages' = <<Stage("extract", q)>>
    /\ outcome' = "running"
    /\ pc' = "while"
    /\ UNCHANGED <<unitVars, concVars, workload, last_exec, stored,
                   max_iterations, table, result, issues, final_result,
                   database, exec_calls, corr_calls, valid_seen,
                   unchanged_seen, learned_log, store_faults, prev_run>>

\* mutant: the loop runs one round more than the budget
LoopConditionInclusive(count, max) == count <= max

\* while iteration_count < self.max_iterations
LoopCondition(count, max) == count < max

\* the loop body up to the execution: iteration_count += 1;
\* result = self._execute_query(current_query)
LoopExecute ==
    /\ pc = "while"
    /\ LoopCondition(iteration_count, max_iterations)
    /\ iteration_count' = iteration_count + 1
    /\ result' \in execute_query(database, current_query)
    /\ exec_calls' = exec_calls + 1
    /\ last_exec' = <<[query |-> current_query, result |-> result']>>
    /\ stages' = Append(stages, Stage("execute", current_query))
    /\ pc' = "validate"
    /\ UNCHANGED <<unitVars, concVars, workload, stored,
                   max_iterations, table, user_input, gpt4_generated_query,
                   constraints, current_query, validation_status,
                   correction_history, issues, final_result, outcome,
                   database, corr_calls, valid_seen, unchanged_seen,
                   learned_log, store_faults, prev_run>>

\* mutant: an exhausted budget returns the loop's latest result without
\* executing the final SQL
LoopExitToStore ==
    /\ pc = "while"
    /\ ~ LoopCondition(iteration_count, max_iterations)
    /\ validation_status' = MAX_ITERATIONS
    /\ final_result' = result
    /\ pc' = "store"
    /\ UNCHANGED <<unitVars, concVars, workload, last_exec, stored,
                   max_iterations, table, user_input, gpt4_generated_query,
                   constraints, current_query, iteration_count,
                   correction_history, result, issues, outcome, database,
                   exec_calls, corr_calls, valid_seen, unchanged_seen, stages,
                   learned_log, store_faults, prev_run>>

\* the while condition is false: fall out of the loop
LoopExit ==
    /\ pc = "while"
    /\ ~ LoopCondition(iteration_count, max_iterations)
    /\ pc' = "after_loop"
    /\ UNCHANGED <<unitVars, concVars, workload, last_exec, stored,
                   max_iterations, table, user_input, gpt4_generated_query,
                   constraints, current_query, iteration_count,
                   validation_status, correction_history, result, issues,
                   final_result, outcome, database, exec_calls, corr_calls,
                   valid_seen, unchanged_seen, stages, learned_log,
                   store_faults, prev_run>>

\* is_valid, issues = validate_results(...); if is_valid: break
ValidateResults ==
    /\ pc = "validate"
    /\ LET v == validate_results(result, constraints, current_query)
       IN /\ issues' = v.issues
          /\ valid_seen' = v.is_valid
          /\ pc' = IF v.is_valid THEN "after_loop" ELSE "correct"
    /\ stages' = Append(stages, Stage("validate", current_query))
    /\ UNCHANGED <<unitVars, concVars, workload, last_exec, stored,
                   max_iterations, table, user_input, gpt4_generated_query,
                   constraints, current_query, iteration_count,
                   validation_status, correction_history, result,
                   final_result, outcome, database, exec_calls, corr_calls,
                   unchanged_seen, learned_log, store_faults, prev_run>>

\* mutant: the entry records the SQL before the correction twice
HistoryEntryKeepsOriginal(count, iss, reason, before, after) ==
    [iteration |-> count, issues |-> iss, correction_reason |-> reason,
     original_query |-> before, corrected_query |-> before]

\* the entry process_query appends to correction_history
HistoryEntry(count, iss, reason, before, after) ==
    [iteration |-> count, issues |-> iss, correction_reason |-> reason,
     original_query |-> before, corrected_query |-> after]

\* mutant: the status is not updated after a correction
CorrectedStatusKept(status) == status

\* validation_status = ValidationStatus.CORRECTED, after a correction that
\* changed the SQL
CorrectedStatus(status) == CORRECTED

\* mutant: an unchanged SQL is not detected
NoCorrectionAppliedNever(corrected_query, query) == FALSE

\* if corrected_query == current_query: status FAILED, break
NoCorrectionApplied(corrected_query, query) == corrected_query = query

\* TRUE when _apply_learned_patterns has a record to learn the county
\* rewrite from
LearnedEnabled(similar) ==
    \E i \in DOMAIN Prefix(similar, TopLearned) :
        MentionsCountyFilter(similar[i].correction_reason)

\* generate_correction and what the loop does with its answer.  The read of
\* the learning store may fail inside get_similar_corrections' try block,
\* which then returns [].
GenerateCorrection ==
    /\ pc = "correct"
    /\ \E readOk \in BOOLEAN :
         LET readable == IF readOk THEN table ELSE <<>>
             c == generate_correction(current_query, constraints, issues,
                                      readable)
         IN /\ store_faults' = (store_faults \/ ~ readOk)
            /\ learned_log' =
                  Append(learned_log,
                         LearnedEnabled(get_similar_corrections(
                             readable, constraints, SimilarLimit)))
            /\ IF NoCorrectionApplied(c.query, current_query)
               THEN /\ validation_status' = FAILED
                    /\ unchanged_seen' = TRUE
                    /\ pc' = "after_loop"
                    /\ UNCHANGED <<correction_history, current_query>>
               ELSE /\ correction_history' =
                         Append(correction_history,
                                HistoryEntry(iteration_count, issues, c.reason,
                                             current_query, c.query))
                    /\ current_query' = c.query
                    /\ validation_status' = CorrectedStatus(validation_status)
                    /\ pc' = "while"
                    /\ UNCHANGED unchanged_seen
    /\ corr_calls' = corr_calls + 1
    /\ stages' = Append(stages, Stage("correct", current_query))
    /\ UNCHANGED <<unitVars, concVars, workload, last_exec, stored,
                   max_iterations, table, user_input, gpt4_generated_query,
                   constraints, iteration_count, result, issues, final_result,
                   outcome, database, exec_calls, valid_seen, prev_run>>

\* an exception leaves process_query: the caller gets no envelope
Raise(where) ==
    /\ outcome' = where
    /\ pc' = "idle"
    /\ LocalsCleared
    /\ UNCHANGED <<unitVars, concVars, workload, max_iterations, table, database, prev_run>>

\* get_similar_corrections: sqlite3.connect stands before the try block; when
\* it raises, nothing catches the exception
CorrectionRaises ==
    /\ pc = "correct"
    /\ Raise("raised in get_similar_corrections")

\* mutant: a loop that ran exactly max rounds keeps its status
BudgetExceededStrict(count, max) == count > max

\* mutant: the budget is not looked at after the loop
BudgetExceededNever(count, max) == FALSE

\* if iteration_count >= self.max_iterations
BudgetExceeded(count, max) == count >= max

\* mutant: the loop's latest result is returned, the final SQL is not
\* executed again
CheckMaxIterationsSkipsFinal ==
    /\ pc = "after_loop"
    /\ validation_status' =
          IF BudgetExceeded(iteration_count, max_iterations)
          THEN MAX_ITERATIONS ELSE validation_status
    /\ final_result' = result
    /\ pc' = "store"
    /\ UNCHANGED <<unitVars, concVars, workload, last_exec, stored,
                   max_iterations, table, user_input, gpt4_generated_query,
                   constraints, current_query, iteration_count,
                   correction_history, result, issues, outcome, database,
                   exec_calls, corr_calls, valid_seen, unchanged_seen, stages,
                   learned_log, store_faults, prev_run>>

\* lines 728-730: status MAX_ITERATIONS when the count reached the budget
CheckMaxIterations ==
    /\ pc = "after_loop"
    /\ validation_status' =
          IF BudgetExceeded(iteration_count, max_iterations)
          THEN MAX_ITERATIONS ELSE validation_status
    /\ pc' = "final"
    /\ UNCHANGED <<unitVars, concVars, workload, last_exec, stored,
                   max_iterations, table, user_input, gpt4_generated_query,
                   constraints, current_query, iteration_count,
                   correction_history, result, issues, final_result, outcome,
                   database, exec_calls, corr_calls, valid_seen,
                   unchanged_seen, stages, learned_log, store_faults, prev_run>>

\* mutant: the final execution runs the candidate SQL again
FinalExecuteCandidate ==
    /\ pc = "final"
    /\ final_result' \in execute_query(database, gpt4_generated_query)
    /\ exec_calls' = exec_calls + 1
    /\ last_exec' =
          <<[query |-> gpt4_generated_query, result |-> final_result']>>
    /\ stages' = Append(stages, Stage("execute", gpt4_generated_query))
    /\ pc' = "store"
    /\ UNCHANGED <<unitVars, concVars, workload, stored,
                   max_iterations, table, user_input, gpt4_generated_query,
                   constraints, current_query, iteration_count,
                   validation_status, correction_history, result, issues,
                   outcome, database, corr_calls, valid_seen, unchanged_seen,
                   learned_log, store_faults, prev_run>>

\* final_result = self._execute_query(current_query)
FinalExecute ==
    /\ pc = "final"
    /\ final_result' \in execute_query(database, current_query)
    /\ exec_calls' = exec_calls + 1
    /\ last_exec' =
          <<[query |-> current_query, result |-> final_result']>>
    /\ stages' = Append(stages, Stage("execute", current_query))
    /\ pc' = "store"
    /\ UNCHANGED <<unitVars, concVars, workload, stored,
                   max_iterations, table, user_input, gpt4_generated_query,
                   constraints, current_query, iteration_count,
                   validation_status, correction_history, result, issues,
                   outcome, database, corr_calls, valid_seen, unchanged_seen,
                   learned_log, store_faults, prev_run>>

\* hashlib.md5(f"{user_input}:{original_query}"): the fingerprint of the pair
QueryHash(u, original_query) == <<u, original_query>>

RECURSIVE JoinReasons(_)
JoinReasons(history) ==
    IF history = <<>> THEN <<>>
    ELSE Head(history).correction_reason \o JoinReasons(Tail(history))

\* mutant: the fingerprint is taken of the final SQL
FeedbackRecordOfFinal(u, original_query, final_query, cons, history, count, status) ==
    [query_hash |-> QueryHash(u, final_query),
     original_query |-> original_query,
     corrected_query |-> final_query,
     user_input |-> u,
     constraints |-> cons,
     correction_reason |-> JoinReasons(history),
     iteration_count |-> count,
     validation_status |-> status]

\* SQLFeedbackLoop._store_learning_record: the FeedbackRecord it builds
FeedbackRecord(u, original_query, final_query, cons, history, count, status) ==
    [query_hash |-> QueryHash(u, original_query),
     original_query |-> original_query,
     corrected_query |-> final_query,
     user_input |-> u,
     constraints |-> cons,
     correction_reason |-> JoinReasons(history),
     iteration_count |-> count,
     validation_status |-> status]

\* self._store_learning_record(...): the write either commits, or fails inside
\* store_feedback's try block, where the exception is logged and dropped
StoreLearningRecord ==
    /\ pc = "store"
    /\ \E written \in BOOLEAN :
          LET record == FeedbackRecord(user_input, gpt4_generated_query,
                                       current_query, constraints,
                                       correction_history, iteration_count,
                                       validation_status)
          IN /\ store_faults' = (store_faults \/ ~ written)
             /\ table' = IF written THEN store_feedback(table, record)
                         ELSE table
             /\ stored' = IF written THEN <<record>> ELSE <<>>
    /\ stages' = Append(stages, Stage("store", current_query))
    /\ pc' = "return"
    /\ UNCHANGED <<unitVars, concVars, workload, last_exec, max_iterations, user_input,
                   gpt4_generated_query, constraints, current_query,
                   iteration_count, validation_status, correction_history,
                   result, issues, final_result, outcome, database,
                   exec_calls, corr_calls, valid_seen, unchanged_seen,
                   learned_log, prev_run>>

\* store_feedback: sqlite3.connect stands before the try block; when it
\* raises, nothing catches the exception
StoreRaises ==
    /\ pc = "store"
    /\ Raise("raised in store_feedback")

\* SQLFeedbackLoop._generate_explanation
generate_explanation(history, status) ==
    IF status = SUCCESS
    THEN <<"Query executed successfully without corrections.">>
    ELSE IF history = <<>>
    THEN <<"Query failed validation but no corrections could be applied.">>
    ELSE <<CASE status = CORRECTED -> "Query was successfully corrected."
             [] status = FAILED -> "Query corrections failed."
             [] status = MAX_ITERATIONS -> "Maximum correction attempts reached."
             [] OTHER -> "Unknown status">>
         \o JoinReasons(history)

\* the dict process_query returns
Envelope ==
    [final_query |-> current_query,
     result |-> final_result,
     validation_status |-> validation_status,
     iteration_count |-> iteration_count,
     correction_history |-> correction_history,
     constraints |-> constraints,
     explanation |-> generate_explanation(correction_history,
                                          validation_status)]

\* what the call that is returning did, kept for the next call to compare
RunSummary ==
    [user_input |-> user_input,
     gpt4_generated_query |-> gpt4_generated_query,
     final_query |-> current_query,
     validation_status |-> validation_status,
     iteration_count |-> iteration_count,
     learned_log |-> learned_log,
     store_faults |-> store_faults]

\* return {...}
Return ==
    /\ pc = "return"
    /\ outcome' = "returned"
    /\ prev_run' = IF database = "live" THEN <<>> ELSE <<RunSummary>>
    /\ pc' = "idle"
    /\ LocalsCleared
    /\ UNCHANGED <<unitVars, concVars, workload, max_iterations, table, database>>

Next ==
    \/ \E rq \in workload : ProcessQuery(rq[1], rq[2])
    \/ LoopExecute
    \/ LoopExit
    \/ ValidateResults
    \/ GenerateCorrection
    \/ CorrectionRaises
    \/ CheckMaxIterations
    \/ FinalExecute
    \/ StoreLearningRecord
    \/ StoreRaises
    \/ Return

Spec == Init /\ [][Next]_vars

SpecStable == InitStable /\ [][Next]_vars

SpecAggregation == InitAggregation /\ [][Next]_vars

SpecScenario == InitScenario /\ [][Next]_vars

\* ------------------------------------------------------------------------
\* Requests in parallel threads.  A server runs process_query in several
\* threads over one engine and one learning store.  A thread is followed
\* through the I/O of a request, connection by connection: an execution
\* (_execute_query), the corrector's read of the learning store
\* (get_similar_corrections) and the write of the request's record
\* (store_feedback).  Every LearningStore call opens its own SQLite
\* connection; SQLite gives the write lock to one connection at a time and
\* makes a transaction visible to the others at its commit, whole.
\* ------------------------------------------------------------------------

\* all variables of the sequential process_query but the shared table
processVars ==
    <<max_iterations, pc, user_input, gpt4_generated_query, constraints,
      current_query, iteration_count, validation_status, correction_history,
      result, issues, final_result, outcome, database, exec_calls,
      corr_calls, valid_seen, unchanged_seen, stages, learned_log,
      store_faults, prev_run, last_exec, stored, workload>>

\* The records the threads' requests build: what process_query builds, under
\* the default budget, for
\*   "retail properties under $500k", first execution valid;
\*   the same request, first execution without rows, then broadened;
\*   "walton properties" with the county filtered through property_type.
RetailSuccessRecord ==
    FeedbackRecord(URetail, QRetailNarrow, QRetailNarrow,
                   extract_constraints(URetail), <<>>, 1, SUCCESS)

RetailCorrectedRecord ==
    LET c == generate_correction(QRetailNarrow, extract_constraints(URetail),
                                 <<TooFew>>, <<>>)
    IN FeedbackRecord(URetail, QRetailNarrow, c.query,
                      extract_constraints(URetail),
                      <<HistoryEntry(1, <<TooFew>>, c.reason, QRetailNarrow,
                                     c.query)>>,
                      2, CORRECTED)

WaltonCorrectedRecord ==
    LET c == generate_correction(QCountyAsType, extract_constraints(UWalton),
                                 <<CountyIncorrect>>, <<>>)
    IN FeedbackRecord(UWalton, QCountyAsType, c.query,
                      extract_constraints(UWalton),
                      <<HistoryEntry(1, <<CountyIncorrect>>, c.reason,
                                     QCountyAsType, c.query)>>,
                      2, CORRECTED)

ThreadRecords ==
    {RetailSuccessRecord, RetailCorrectedRecord, WaltonCorrectedRecord}

\* the row of the table with this query_hash exists
HasHash(t, query_hash) == \E i \in DOMAIN t : t[i].query_hash = query_hash

\* mutant: the statistics count the corrected requests only
get_learning_stats_corrected(t) ==
    [total_records |-> Len(SelectStatus(t, CORRECTED)),
     status_distribution |->
         [st \in ValidationStatus |-> Len(SelectStatus(t, st))]]

\* SQLFeedbackLoop.get_learning_stats: SELECT COUNT(*) FROM feedback_records
\* and the count per validation_status
get_learning_stats(t) ==
    [total_records |-> Len(t),
     status_distribution |->
         [st \in ValidationStatus |-> Len(SelectStatus(t, st))]]

\* a thread takes up a request
Begin(w) ==
    /\ workers[w].pc = "idle"
    /\ workers' = [workers EXCEPT ![w].pc = "execute"]
    /\ UNCHANGED <<unitVars, processVars, table, store_lock, last_committed,
      stats_totals, overwritten>>

\* _execute_query, `with self.engine.connect() as conn`: the pool hands out a
\* connection, or connect() raises SQLAlchemyError, which line 774 catches
ExecuteConnect(w) ==
    /\ workers[w].pc = "execute"
    /\ \E connected \in BOOLEAN :
          workers' = [workers EXCEPT
                         ![w].pc = IF connected THEN "executing" ELSE "similar",
                         ![w].engine_conn = connected,
                         ![w].exec_failed = ~ connected]
    /\ UNCHANGED <<unitVars, processVars, table, store_lock, last_committed,
      stats_totals, overwritten>>

\* mutant: the connection goes back to the pool on the success path only
ExecuteRunLeaksOnError(w) ==
    /\ workers[w].pc = "executing"
    /\ \E res \in QueryResults :
          workers' = [workers EXCEPT ![w].pc = "similar",
                                     ![w].engine_conn = (res.errors # <<>>),
                                     ![w].exec_failed = (res.errors # <<>>)]
    /\ UNCHANGED <<unitVars, processVars, table, store_lock, last_committed,
      stats_totals, overwritten>>

\* _execute_query, the body of the with block: conn.execute and fetchall
\* return, or raise SQLAlchemyError; either way control leaves the with
\* block, which gives the connection back
ExecuteRun(w) ==
    /\ workers[w].pc = "executing"
    /\ \E res \in QueryResults :
          workers' = [workers EXCEPT ![w].pc = "similar",
                                     ![w].engine_conn = FALSE,
                                     ![w].exec_failed = (res.errors # <<>>)]
    /\ UNCHANGED <<unitVars, processVars, table, store_lock, last_committed,
      stats_totals, overwritten>>

\* a thread's call ends: by return, or by an exception nothing caught
Leave(w) == [workers EXCEPT ![w] = IdleWorker]

\* get_similar_corrections, conn = sqlite3.connect(...): a connection, or an
\* exception before the try block, which ends the call
SimilarConnect(w) ==
    /\ workers[w].pc = "similar"
    /\ \E connected \in BOOLEAN :
          workers' = IF connected
                     THEN [workers EXCEPT ![w].pc = "selecting",
                                          ![w].store_conn = TRUE,
                                          ![w].exec_failed = FALSE]
                     ELSE Leave(w)
    /\ UNCHANGED <<unitVars, processVars, table, store_lock, last_committed,
      stats_totals, overwritten>>

\* get_similar_corrections, try / except / finally: the SELECT returns rows
\* or raises (then []); finally conn.close()
SimilarRead(w) ==
    /\ workers[w].pc = "selecting"
    /\ \E readOk \in BOOLEAN :
          workers' = [workers EXCEPT ![w].pc = "store",
                                     ![w].store_conn = FALSE]
    /\ UNCHANGED <<unitVars, processVars, table, store_lock, last_committed,
      stats_totals, overwritten>>

\* store_feedback(record), conn = sqlite3.connect(...): a connection, or an
\* exception before the try block, which ends the call.  `record` is what
\* the thread's request has built.
StoreConnect(w, record) ==
    /\ workers[w].pc = "store"
    /\ \E connected \in BOOLEAN :
          workers' = IF connected
                     THEN [workers EXCEPT ![w].pc = "insert",
                                          ![w].record = <<record>>,
                                          ![w].store_conn = TRUE]
                     ELSE Leave(w)
    /\ UNCHANGED <<unitVars, processVars, table, store_lock, last_committed,
                   stats_totals, overwritten>>

\* store_feedback, cursor.execute(INSERT OR REPLACE ...): the statement
\* opens a transaction and takes SQLite's write lock; while another
\* connection holds the lock it waits, and raises "database is locked" when
\* the wait times out, which the except clause logs
StoreInsert(w) ==
    /\ workers[w].pc = "insert"
    /\ \/ /\ store_lock = 0
          /\ store_lock' = w
          /\ workers' = [workers EXCEPT ![w].pc = "commit"]
       \/ /\ store_lock # 0
          /\ store_lock' = store_lock
          /\ workers' = [workers EXCEPT ![w].pc = "close"]
    /\ UNCHANGED <<unitVars, processVars, table, last_committed,
      stats_totals, overwritten>>

\* store_feedback, conn.commit(): the row replaces the one of the same
\* query_hash for every connection at once and the lock is released; or the
\* commit raises, which the except clause logs
StoreCommit(w) ==
    /\ workers[w].pc = "commit"
    /\ \E committed \in BOOLEAN :
          LET record == workers[w].record[1]
          IN IF committed
             THEN /\ table' = store_feedback(table, record)
                  /\ last_committed' =
                        [h \in DOMAIN last_committed \cup {record.query_hash}
                            |-> IF h = record.query_hash THEN record
                                ELSE last_committed[h]]
                  /\ overwritten' =
                        (overwritten \/ HasHash(table, record.query_hash))
                  /\ store_lock' = 0
                  /\ workers' = [workers EXCEPT ![w].pc = "close",
                                                ![w].committed = TRUE]
             ELSE /\ workers' = [workers EXCEPT ![w].pc = "close"]
                  /\ UNCHANGED <<table, last_committed, overwritten,
                                 store_lock>>
    /\ UNCHANGED <<unitVars, processVars, stats_totals>>

\* store_feedback, finally: conn.close() (an open transaction is rolled back
\* and its lock released); the request returns
StoreClose(w) ==
    /\ workers[w].pc = "close"
    /\ workers' = Leave(w)
    /\ store_lock' = IF store_lock = w THEN 0 ELSE store_lock
    /\ UNCHANGED <<unitVars, processVars, table, last_committed,
      stats_totals, overwritten>>

\* a caller reads get_learning_stats (its own connection, closed in finally)
GetLearningStats ==
    /\ stats_totals' = <<get_learning_stats(table).total_records>>
    /\ overwritten' = FALSE
    /\ UNCHANGED <<unitVars, processVars, table, workers, store_lock, last_committed>>

NextConcurrent ==
    \/ \E w \in Workers : Begin(w)
    \/ \E w \in Workers : ExecuteConnect(w)
    \/ \E w \in Workers : ExecuteRun(w)
    \/ \E w \in Workers : SimilarConnect(w)
    \/ \E w \in Workers : SimilarRead(w)
    \/ \E w \in Workers : \E record \in ThreadRecords : StoreConnect(w, record)
    \/ \E w \in Workers : StoreInsert(w)
    \/ \E w \in Workers : StoreCommit(w)
    \/ \E w \in Workers : StoreClose(w)
    \/ GetLearningStats

\* the loop as constructed by default, its threads idle
InitConcurrent == Init /\ max_iterations = DefaultMaxIterations

SpecConcurrent == InitConcurrent /\ [][NextConcurrent]_vars

\* ------------------------------------------------------------------------
\* The extractor, the validator and the corrector on their own: the
\* functions applied, one after the other as the loop body does, to an
\* utterance, a SQL statement, an execution result and a learning store
\* drawn from the sets below.
\* ------------------------------------------------------------------------

\* the amounts of the price phrases, before the 'k'
PriceAmounts == {200, 500, 800}

\* 'between $a and $b', 'under $a', 'over $a', each with or without 'k', or
\* no price phrase
PricePhrases ==
    {NoPrice}
        \cup [kind : {"between"}, a : PriceAmounts, b : PriceAmounts,
              k : BOOLEAN]
        \cup [kind : {"under", "over"}, a : PriceAmounts, b : {0},
              k : BOOLEAN]

\* the utterances whose constraints are extracted
ExtractorUtterances ==
    [phrases : {{"properties"}, {"retail", "properties"},
                {"walton", "properties"}, {"walton", "county"}},
     price : PricePhrases]

\* "how many properties in walton"
UHowManyWalton ==
    [phrases |-> {"how many", "properties", "walton"}, price |-> NoPrice]

\* the utterances behind the statements given to the corrector
CorrectorUtterances == {UWalton, URetail, UHowManyWalton, UHowManyCounties}

\* the SQL statements given to the validator and the corrector
CorrectorQueries ==
    [select_kw : BOOLEAN, select_from : {TRUE},
     cols : {{}, essential_columns},
     count : BOOLEAN, group_by : BOOLEAN,
     ap_list : BOOLEAN, ap_other : BOOLEAN,
     price : {"none", "ineq"},
     county : {[c \in Counties |-> IF c = "walton" THEN k ELSE "none"] :
                  k \in {"none", "ptype", "ptype_lc", "addr"}},
     marker : BOOLEAN,
     ptype : {[t \in PropertyTypes |->
                  [narrow |-> n /\ t = "retail", wraps |-> 0]] :
                  n \in BOOLEAN}]

ProbeInput(u, q, r, t) ==
    [NoProbe EXCEPT !.stage = "input", !.user_query = u, !.query = q,
                    !.result = r, !.table = t]

\* the loop constructed, no call running, no parser in use
LoopIdle ==
    /\ max_iterations = DefaultMaxIterations
    /\ database = "live"
    /\ workload = {}
    /\ Constructed
    /\ parser = ParserIdle(<<>>)

\* an utterance is handed to the extractor
InitExtractor ==
    /\ LoopIdle
    /\ probe \in {ProbeInput(u, PlainSelect, NoResult, <<>>) :
                     u \in ExtractorUtterances}

\* an utterance, a statement, its result (rows, no error) and a learning
\* store (empty, or holding a county correction) are handed to the extractor,
\* the validator and the corrector
InitCorrector ==
    /\ LoopIdle
    /\ probe \in {ProbeInput(u, q, r, t) :
                     u \in CorrectorUtterances, q \in CorrectorQueries,
                     r \in {[row_count |-> n, errors |-> <<>>] :
                               n \in RowCounts},
                     t \in {<<>>, <<WaltonCorrectedRecord>>}}

\* constraints = self.constraint_extractor.extract_constraints(user_input)
ExtractProbe ==
    /\ probe.stage = "input"
    /\ probe' = [probe EXCEPT !.stage = "extracted",
                              !.constraints =
                                  extract_constraints(probe.user_query)]
    /\ UNCHANGED <<processVars, concVars, table, parser>>

\* is_valid, issues = self.query_validator.validate_results(...)
ValidateProbe ==
    /\ probe.stage = "extracted"
    /\ LET v == validate_results(probe.result, probe.constraints,
                                 probe.query)
       IN probe' = [probe EXCEPT !.stage = "validated",
                                 !.issues = v.issues,
                                 !.is_valid = v.is_valid]
    /\ UNCHANGED <<processVars, concVars, table, parser>>

\* corrected_query, correction_reason =
\*     self.sql_corrector.generate_correction(...), when not is_valid
CorrectProbe ==
    /\ probe.stage = "validated"
    /\ ~ probe.is_valid
    /\ probe' = [probe EXCEPT !.stage = "corrected",
                              !.corrected =
                                  generate_correction(probe.query,
                                                      probe.constraints,
                                                      probe.issues,
                                                      probe.table)]
    /\ UNCHANGED <<processVars, concVars, table, parser>>

NextCorrector ==
    \/ ExtractProbe
    \/ ValidateProbe
    \/ CorrectProbe

SpecExtractor == InitExtractor /\ [][ExtractProbe]_vars

SpecCorrector == InitCorrector /\ [][NextCorrector]_vars

\* ------------------------------------------------------------------------
\* QueryParser.parse and SQLGenerator.generate at work: an utterance is
\* parsed and its SQL generated; then another process, whose sets iterate in
\* an order of their own, is given the same utterance.
\* ------------------------------------------------------------------------

\* the deepest nesting of calls the model follows (CPython raises
\* RecursionError at its recursion limit)
RecursionLimit == 3

\* how many processes are given the utterance
MaxRuns == 2

\* the loop constructed and idle; a parser is handed an utterance
InitParser ==
    /\ max_iterations = DefaultMaxIterations
    /\ database = "live"
    /\ workload = {}
    /\ Constructed
    /\ probe = NoProbe
    /\ parser \in {[ParserIdle(o) EXCEPT !.pc = "parse", !.query = u,
                                         !.runs = 1] :
                      o \in IterationOrders(GEORGIA_COUNTIES),
                      u \in ParserUtterances}

\* QueryParser.parse: reset, then either the call of
\* _parse_aggregation_query or the regular parse to its return
Parse ==
    /\ parser.pc = "parse"
    /\ IF is_aggregation_query(parser.query)
       THEN parser' = [parser EXCEPT !.pc = "parse_aggregation"]
       ELSE parser' = [parser EXCEPT !.pc = "parsed",
                                     !.parsed =
                                         parse_regular(parser.set_order,
                                                       parser.query)]
    /\ UNCHANGED <<processVars, concVars, table, probe>>

\* QueryParser._parse_aggregation_query: one of the three branches returns a
\* ParsedQuery without limit; otherwise return self.parse(query), a call
\* nested in the running one
ParseAggregationQuery ==
    /\ parser.pc = "parse_aggregation"
    /\ LET branch == aggregation_branch(parser.query)
       IN IF branch # "fallback"
          THEN parser' = [parser EXCEPT !.pc = "parsed",
                                        !.parsed =
                                            ParsedQuery(<<>>, <<>>, TRUE,
                                                        branch)]
          ELSE IF parser.depth < RecursionLimit
          THEN parser' = [parser EXCEPT !.pc = "parse",
                                        !.depth = parser.depth + 1]
          ELSE parser' = [parser EXCEPT !.pc = "RecursionError"]
    /\ UNCHANGED <<processVars, concVars, table, probe>>

\* SQLGenerator.generate on the ParsedQuery
Generate ==
    /\ parser.pc = "parsed"
    /\ parser' = [parser EXCEPT !.pc = "generated",
                                !.sql = generate(parser.parsed)]
    /\ UNCHANGED <<processVars, concVars, table, probe>>

\* the same utterance goes to the parser of another process; the SQL the
\* process before generated is kept for comparison
ParseInNewProcess ==
    /\ parser.pc = "generated"
    /\ parser.runs < MaxRuns
    /\ \E o \in IterationOrders(GEORGIA_COUNTIES) :
          parser' = [parser EXCEPT !.pc = "parse", !.set_order = o,
                                   !.depth = 0, !.parsed = NoParsedQuery,
                                   !.sql = NoSql,
                                   !.runs = parser.runs + 1,
                                   !.prev_sql = parser.sql]
    /\ UNCHANGED <<processVars, concVars, table, probe>>

NextParser ==
    \/ Parse
    \/ ParseAggregationQuery
    \/ Generate
    \/ ParseInNewProcess

SpecParser == InitParser /\ [][NextParser]_vars

\* a call that can take its next step takes it
SpecParserLive == SpecParser /\ WF_vars(NextParser)

\* ------------------------------------------------------------------------
\* Properties of the envelope.  A call is about to return its envelope in
\* the states with pc = "return"; Envelope is what it returns.
\* ------------------------------------------------------------------------

Returning == pc = "return"

\* the loop's first execution passed validation
FirstRoundValid == iteration_count = 1 /\ valid_seen

C2_ValidKeepsStatus ==
    (Returning /\ max_iterations >= 1 /\ valid_seen)
        => Envelope.validation_status =
              (IF correction_history = <<>> THEN SUCCESS ELSE CORRECTED)

\* C3: whenever the corrector returns the SQL it was given, the envelope has
\* status FAILED.
C3_UnchangedIsFailed ==
    (Returning /\ unchanged_seen) => Envelope.validation_status = FAILED

C5_ExecutorCalls ==
    /\ exec_calls <= max_iterations + 1
    /\ Returning => exec_calls >= 1

\* C5 witness: a call with a budget of at least one round returns having
\* used all max_iterations + 1 executions.
C5_Witness ==
    Returning /\ max_iterations >= 1 /\ exec_calls = max_iterations + 1

\* C6: an envelope with status CORRECTED has a final_sql other than the
\* candidate SQL, and a non-empty history.
C6_CorrectedDiffers ==
    (Returning /\ Envelope.validation_status = CORRECTED)
        => (Envelope.final_query # gpt4_generated_query
            /\ Envelope.correction_history # <<>>)

\* C6 witness: a call returns CORRECTED.
C6_Witness ==
    /\ Returning /\ Envelope.validation_status = CORRECTED
    /\ corr_calls >= 1

\* C7: with max_iterations = 0 the corrector is never called, and the status
\* is SUCCESS when the candidate's execution result passes validation and
\* MAX_ITERATIONS when it does not.
C7_ZeroBudget ==
    (Returning /\ max_iterations = 0)
        => (/\ corr_calls = 0
            /\ Envelope.validation_status =
                  (IF validate_results(Envelope.result, constraints,
                                       gpt4_generated_query).is_valid
                   THEN SUCCESS ELSE MAX_ITERATIONS))

\* C8: process_query raises nothing to its caller: a failed execution is in
\* the result's errors and among the issues of its round, and a failed
\* learning-store write still lets the call return its envelope.
C8_StoreFailureNeverRaises ==
    /\ pc = "correct"
          => \A i \in DOMAIN result.errors : HasIssue(issues, result.errors[i])
    /\ outcome # "raised in store_feedback"

\* C9: the stages of a call are ordered: the constraints are extracted once,
\* first; a validation directly follows an execution of the same SQL; a
\* corrector call directly follows a validation of the same SQL; the store
\* write is the last stage, happens once in a call that returns, and directly
\* follows an execution of the final SQL.
C9_StageOrder ==
    /\ \A i \in DOMAIN stages :
          /\ (stages[i].stage = "extract") <=> (i = 1)
          /\ stages[i].stage = "validate"
                => (/\ stages[i - 1].stage = "execute"
                    /\ stages[i - 1].query = stages[i].query)
          /\ stages[i].stage = "correct"
                => (/\ stages[i - 1].stage = "validate"
                    /\ stages[i - 1].query = stages[i].query)
          /\ stages[i].stage = "store"
                => (/\ i = Len(stages)
                    /\ stages[i - 1].stage = "execute"
                    /\ stages[i - 1].query = stages[i].query
                    /\ stages[i].query = current_query)
    /\ Returning => stages[Len(stages)].stage = "store"

\* C9 witness: a call returns after its corrector ran twice.
C9_Witness ==
    /\ Returning
    /\ Cardinality({i \in DOMAIN stages : stages[i].stage = "correct"}) >= 2

\* the two calls got the same request
SameRequest(run) ==
    /\ run.user_input = user_input
    /\ run.gpt4_generated_query = gpt4_generated_query

SameEnvelope(run) ==
    /\ run.final_query = Envelope.final_query
    /\ run.validation_status = Envelope.validation_status
    /\ run.iteration_count = Envelope.iteration_count

\* the learning store holds the record of the request of the running call
RecordStored ==
    \E i \in DOMAIN table :
        table[i].query_hash = QueryHash(user_input, gpt4_generated_query)

SameLearning(run) ==
    \A i \in DOMAIN run.learned_log \cap DOMAIN learned_log :
        run.learned_log[i] = learned_log[i]

C11_UpsertByHash ==
    /\ \A i, j \in DOMAIN table :
          table[i].query_hash = table[j].query_hash => i = j
    /\ \A h \in DOMAIN last_committed :
          \E i \in DOMAIN table : table[i] = last_committed[h]
    /\ \A record \in ThreadRecords :
          store_feedback(store_feedback(table, record), record)
              = store_feedback(table, record)

\* C11 witness: a write has replaced a row, and the row of the retail
\* request is the SUCCESS record that was written last, next to the row of
\* another request.
C11_Witness ==
    /\ overwritten
    /\ RetailSuccessRecord.query_hash \in DOMAIN last_committed
    /\ last_committed[RetailSuccessRecord.query_hash] = RetailSuccessRecord
    /\ Len(table) = 2

\* C13: with requests storing in parallel, every row of the learning store is
\* the whole record that one request built for that query_hash, and it is
\* the record of the request whose write completed last; a write that has not
\* completed shows nothing.
C13_ConcurrentWritesWhole ==
    /\ \A i \in DOMAIN table :
          /\ \E record \in ThreadRecords :
                /\ record.query_hash = table[i].query_hash
                /\ record = table[i]
          /\ table[i].query_hash \in DOMAIN last_committed
          /\ table[i] = last_committed[table[i].query_hash]
    /\ Len(table) = Cardinality(DOMAIN last_committed)

\* C13 witness: two threads have both committed, one after the other,
\* different records of the same query_hash.
C13_Witness ==
    \E w1, w2 \in Workers :
        /\ w1 # w2
        /\ workers[w1].committed /\ workers[w2].committed
        /\ workers[w1].record[1].query_hash = workers[w2].record[1].query_hash
        /\ workers[w1].record[1] # workers[w2].record[1]

\* C15: the total that get_learning_stats reports never decreases: whatever
\* a call answered, the next call answers at least as much.
C15_StatsTotalMonotone ==
    stats_totals # <<>>
        => get_learning_stats(table).total_records >= stats_totals[1]

\* C15 witness: since the latest get_learning_stats, which counted a row, a
\* write replaced a row of the same query_hash.
C15_Witness ==
    /\ stats_totals # <<>> /\ stats_totals[1] >= 1
    /\ overwritten

\* C17: a request holds a connection of the engine only inside
\* _execute_query, and a SQLite connection only inside a LearningStore call:
\* between two stages, and when it has returned, it holds neither.
C17_ConnectionsReleased ==
    \A w \in Workers :
        /\ workers[w].engine_conn => workers[w].pc = "executing"
        /\ workers[w].store_conn
              => workers[w].pc \in {"selecting", "insert", "commit", "close"}

\* C17 witness: a request stands between its execution, which failed, and
\* the read of the learning store, while the other thread's write failed and
\* is about to close its connection.
C17_Witness ==
    \E w1, w2 \in Workers :
        /\ workers[w1].pc = "similar" /\ workers[w1].exec_failed
        /\ ~ workers[w1].engine_conn
        /\ workers[w2].pc = "close" /\ ~ workers[w2].committed

\* ------------------------------------------------------------------------
\* Properties of the record, of the result and of the final SQL
\* ------------------------------------------------------------------------

\* C12: a call that returns has handed exactly one FeedbackRecord to the
\* store, whatever its status; the record's query_hash is the fingerprint of
\* the utterance and the candidate SQL, its original_query the candidate,
\* and its corrected_query, iteration_count and validation_status are those
\* of the envelope.
C12_OneRecordPerCall ==
    Returning
        => /\ Cardinality({i \in DOMAIN stages : stages[i].stage = "store"}) = 1
           /\ stored # <<>>
                 => /\ stored[1].query_hash
                          = QueryHash(user_input, gpt4_generated_query)
                    /\ stored[1].original_query = gpt4_generated_query
                    /\ stored[1].corrected_query = Envelope.final_query
                    /\ stored[1].iteration_count = Envelope.iteration_count
                    /\ stored[1].validation_status = Envelope.validation_status
                    /\ \E i \in DOMAIN table : table[i] = stored[1]

\* C12 witness: a call whose final SQL is not the candidate returns, its
\* record written.
C12_Witness ==
    /\ Returning /\ stored # <<>>
    /\ Envelope.final_query # gpt4_generated_query

\* the place of a record in the table (rows in the order of their timestamps)
Position(t, record) == CHOOSE i \in DOMAIN t : t[i] = record

\* C14: get_similar_corrections returns at most `limit` records, all of them
\* CORRECTED, the newest first; and a failure of the read gives the empty
\* list, never an exception.
C14_SimilarCorrections ==
    /\ \A limit \in 0 .. SimilarLimit :
          LET similar == get_similar_corrections(table, constraints, limit)
          IN /\ Len(similar) <= limit
             /\ \A i \in DOMAIN similar :
                   similar[i].validation_status = CORRECTED
             /\ \A i, j \in DOMAIN similar :
                   i < j => Position(table, similar[i])
                               > Position(table, similar[j])
    /\ outcome # "raised in get_similar_corrections"

\* C16: the result of the envelope is the result of the latest execution of
\* the call, and that execution ran the envelope's final SQL.
C16_ResultOfLastExecution ==
    Returning
        => /\ last_exec # <<>>
           /\ Envelope.result = last_exec[1].result
           /\ Envelope.final_query = last_exec[1].query

\* C16 witness: a call returns MAX_ITERATIONS after a correction in its last
\* round, with a final result other than the last one the loop saw.
C16_Witness ==
    /\ Returning /\ Envelope.validation_status = MAX_ITERATIONS
    /\ correction_history # <<>>
    /\ Envelope.result # result

\* C18: every county of the constraints that the final SQL mentions is
\* applied through address->>'county'.
C18_CountyThroughAddress ==
    Returning
        => \A i \in DOMAIN constraints.counties :
              MentionsCounty(Envelope.final_query, constraints.counties[i])
                  => Envelope.final_query.county[constraints.counties[i]]
                        = "addr"

\* C19: when the constraints carry a price range with a finite upper bound
\* (the lower bound 0 of "under $A" included), the final SQL filters
\* asking_price with BETWEEN.
C19_FinitePriceRangeUsesBetween ==
    (/\ Returning
     /\ constraints.price_range # <<>>
     /\ constraints.price_range[2] < Inf)
        => Envelope.final_query.price = "between"

\* C20: when the constraints carry the aggregation COUNT, the final SQL
\* contains COUNT(, whatever the candidate and the status.
C20_CountIntentHasCount ==
    (Returning /\ constraints.aggregation_type = "COUNT")
        => Envelope.final_query.count

\* C22: an envelope has the status MAX_ITERATIONS exactly when the loop ran
\* max_iterations rounds, and an envelope with the status SUCCESS, CORRECTED
\* or FAILED has an iteration_count below max_iterations.
C22_MaxIterationsExactlyAtBudget ==
    Returning
        => /\ (Envelope.validation_status = MAX_ITERATIONS)
                 <=> (Envelope.iteration_count = max_iterations)
           /\ Envelope.validation_status \in {SUCCESS, CORRECTED, FAILED}
                 => Envelope.iteration_count < max_iterations
           /\ Envelope.iteration_count <= max_iterations

\* C22 witness: the last round the budget allows passed validation, and the
\* envelope still says MAX_ITERATIONS.
C22_Witness ==
    /\ Returning
    /\ max_iterations > 0
    /\ Envelope.iteration_count = max_iterations
    /\ valid_seen
    /\ Envelope.validation_status = MAX_ITERATIONS

\* C28: the correction history is a chain: its entries carry the iteration
\* numbers 1..k with k <= iteration_count, the first entry starts from the
\* candidate SQL, every entry's corrected SQL differs from its original SQL
\* and is the original SQL of the next entry, the last corrected SQL is the
\* final SQL, and with an empty history the final SQL is the candidate.
C28_HistoryIsChain ==
    Returning
        => LET h == Envelope.correction_history
               k == Len(h)
           IN /\ k <= Envelope.iteration_count
              /\ \A i \in 1 .. k :
                    /\ h[i].iteration = i
                    /\ h[i].corrected_query # h[i].original_query
                    /\ i < k => h[i].corrected_query = h[i + 1].original_query
              /\ k > 0 => /\ h[1].original_query = gpt4_generated_query
                          /\ h[k].corrected_query = Envelope.final_query
              /\ k = 0 => Envelope.final_query = gpt4_generated_query

\* C28 witness: a call returns with two corrections in its history.
C28_Witness ==
    /\ Returning
    /\ Len(Envelope.correction_history) >= 2

\* C29: with the status CORRECTED the final SQL was executed and passed
\* validation in the last round of the loop; with SUCCESS the final SQL is the
\* candidate and passed validation in round 1; with FAILED the final SQL
\* failed validation in the last round and the corrector returned it
\* unchanged.  Only MAX_ITERATIONS may carry a final SQL never validated.
C29_StatusTellsLastRound ==
    Returning
        => LET e == Envelope
               n == Len(stages)
               \* the stages end with the validation that passed, the final
               \* execution and the store write
               LastRoundValidated ==
                   /\ n >= 5
                   /\ stages[n - 2] = Stage("validate", e.final_query)
                   /\ valid_seen
               \* the stages end with the validation that failed, the
               \* corrector giving the SQL back, the final execution and the
               \* store write
               LastRoundUnchanged ==
                   /\ n >= 6
                   /\ stages[n - 3] = Stage("validate", e.final_query)
                   /\ stages[n - 2] = Stage("correct", e.final_query)
                   /\ ~ valid_seen
                   /\ unchanged_seen
           IN /\ e.validation_status = CORRECTED
                    => LastRoundValidated /\ e.correction_history # <<>>
              /\ e.validation_status = SUCCESS
                    => /\ e.final_query = gpt4_generated_query
                       /\ e.iteration_count = 1
                       /\ LastRoundValidated
              /\ e.validation_status = FAILED => LastRoundUnchanged
              /\ e.validation_status # MAX_ITERATIONS
                    => \E i \in DOMAIN stages :
                          stages[i] = Stage("validate", e.final_query)

\* C29 witness: a call returns CORRECTED after a second round validated the
\* corrected SQL.
C29_Witness ==
    /\ Returning
    /\ Envelope.validation_status = CORRECTED
    /\ Envelope.iteration_count >= 2
    /\ stages[Len(stages) - 2] = Stage("validate", Envelope.final_query)
    /\ valid_seen

\* C21: for 'gas stations in walton county under $500k' with a candidate that
\* applies the county as property_type ILIKE '%walton%', over a store whose
\* walton properties the address filter finds, the loop performs exactly one
\* correction, the final SQL applies walton through address->>'county', and
\* the status is CORRECTED.
C21_WaltonScenarioCorrected ==
    (/\ Returning
     /\ user_input = UGasWaltonCounty
     /\ database = "georgia"
     /\ max_iterations = DefaultMaxIterations)
        => /\ Len(Envelope.correction_history) = 1
           /\ Envelope.final_query.county["walton"] = "addr"
           /\ Envelope.validation_status = CORRECTED

\* C25: every price_range (lo, hi) the extractor yields has lo <= hi:
\* 'between $A and $B' yields (min(A, B), max(A, B)) for either order of A
\* and B, 'under $A' yields (0, A), 'over $A' yields (A, unbounded).  An
\* amount is the number stated, times 1000 with a 'k'.
C25_PriceRangeOrdered ==
    (probe.stage = "extracted" /\ probe.constraints.price_range # <<>>)
        => LET p == probe.user_query.price
               A == IF p.k THEN p.a * 1000 ELSE p.a
               B == IF p.k THEN p.b * 1000 ELSE p.b
               range == probe.constraints.price_range
           IN /\ range[1] <= range[2]
              /\ p.kind = "between"
                    => range = <<IF A <= B THEN A ELSE B,
                                 IF A <= B THEN B ELSE A>>
              /\ p.kind = "under" => range = <<0, A>>
              /\ p.kind = "over" => range = <<A, Inf>>

\* C23: generate_correction returns the reason 'No specific corrections
\* applied' exactly when the SQL it returns equals the SQL it was given.
C23_NoCorrectionsIffUnchanged ==
    probe.stage = "corrected"
        => ((probe.corrected.reason = NoCorrections)
               <=> (probe.corrected.query = probe.query))

\* C24: when the validator reports the county-field misuse for a statement,
\* the corrector's output for that statement and those issues passes the
\* validator's county check, whatever the letter case of the predicate.
C24_CorrectedPassesCountyCheck ==
    (probe.stage = "corrected" /\ HasIssue(probe.issues, CountyIncorrect))
        => validate_county_filter(probe.corrected.query,
                                  probe.constraints.counties)

\* C26: the SQL the builder emits for a non-aggregation utterance carries
\* LIMIT n, n the limit the utterance states or 50 when it states none; for
\* an aggregation utterance the SQL carries no LIMIT clause.
C26_LimitStatedOrDefault ==
    parser.pc = "generated"
        => IF is_aggregation_query(parser.query)
           THEN parser.sql.limit = <<>>
           ELSE parser.sql.limit =
                   <<IF parser.query.limit > 0 THEN parser.query.limit
                     ELSE DefaultLimit>>

\* C27: for an utterance that names several counties, the WHERE clause has
\* one address->>'county' predicate for each county named, the predicates
\* OR-joined, and the SQL is the same on every run for the utterance.
C27_EveryCountyEveryRun ==
    (/\ parser.pc = "generated"
     /\ ~ is_aggregation_query(parser.query)
     /\ Cardinality(parser.query.counties) >= 2)
        => LET sql == parser.sql
               CountyPredicates(c) ==
                   {i \in DOMAIN sql.where :
                       /\ sql.where[i].field = "address->>'county'"
                       /\ sql.where[i].value = c}
           IN /\ \A c \in parser.query.counties :
                    Cardinality(CountyPredicates(c)) = 1
              /\ sql.joined_by = "OR"
              /\ parser.runs >= 2 => sql = parser.prev_sql

\* C30: QueryParser.parse terminates for every utterance: when
\* _is_aggregation_query accepts the utterance, one of the three branches of
\* _parse_aggregation_query returns, the fallback that calls parse again is
\* never reached, no call nests in another, and every parse that starts
\* returns its ParsedQuery.
C30_ParseTerminates ==
    /\ [](/\ parser.depth = 0
          /\ parser.pc # "RecursionError"
          /\ parser.pc = "parse_aggregation"
                => aggregation_branch(parser.query) # "fallback")
    /\ (parser.pc = "parse") ~> (parser.pc = "parsed")

\* C30 witness: 'total properties', which _is_aggregation_query accepts as a
\* whole and _parse_aggregation_query through the word 'total' only, was
\* parsed as a total count.
C30_Witness ==
    /\ parser.pc = "parsed"
    /\ parser.query.phrases = {"total properties"}
    /\ parser.parsed.is_aggregate
    /\ parser.parsed.aggregate_type = "total_count"

====
